---------------------------- MODULE Spec2Model ----------------------------
(***************************************************************************)
(* The two /llamaquery handlers of the repository:                         *)
(*   beastgpt.py        single-index retrieval with a 3-attempt retry loop *)
(*   llamaquery_api.py  LLM router over two indices, one attempt, broad    *)
(*                      except                                             *)
(* Python values are modelled as follows.  An optional value (None or a    *)
(* value) is a set with no or one element.  A text that the code slices,   *)
(* joins or strips is a sequence of one-character strings; a text the code *)
(* only passes on is a TLA+ string.  An f-string is the sequence of its    *)
(* pieces.  A dict is a function whose domain is its keys.                 *)
(***************************************************************************)
EXTENDS Integers, Sequences, FiniteSets, TLC

\* ------------------------------------------------------------- bounds ----
NumReq == 2
MaxNodes == 3
MaxMetaNodes == 1

Req == 1..NumReq

\* ------------------------------------------------------ Python values ----
Null == {}
Some(v) == {v}
TheVal(o) == CHOOSE v \in o : TRUE
EmptyMap == [k \in {} |-> {}]

\* dict.get(key): None when the key is absent
Get(d, key) == IF key \in DOMAIN d THEN d[key] ELSE Null

\* Python truthiness of an optional string: None and "" are falsy
Truthy(o) == o # Null /\ o # Some("")

\* a or b: the first operand when it is truthy, else the second
PyOr(a, b) == IF Truthy(a) THEN a ELSE b

\* str.strip(): whitespace removed at both ends
IsSpace(c) == c \in {" ", "\n", "\t"}

RECURSIVE LStrip(_)
LStrip(s) == IF s = <<>> THEN s
             ELSE IF IsSpace(Head(s)) THEN LStrip(Tail(s)) ELSE s

RECURSIVE RStrip(_)
RStrip(s) == IF s = <<>> THEN s
             ELSE IF IsSpace(s[Len(s)]) THEN RStrip(SubSeq(s, 1, Len(s) - 1)) ELSE s

Strip(s) == RStrip(LStrip(s))

\* ------------------------------------------- beastgpt.py: normalizer ----
\* metadata = getattr(node_obj, "metadata", {}) or {}
MetadataOf(node) == IF node.metadata = Null THEN EmptyMap ELSE TheVal(node.metadata)

\* variant: filename looked up before file_name
FileNameSwapped(metadata) ==
    PyOr(Get(metadata, "filename"),
         PyOr(Get(metadata, "file_name"), Get(metadata, "document_title")))

\* metadata.get("file_name") or metadata.get("filename") or metadata.get("document_title")
FileNameOf(metadata) ==
    PyOr(Get(metadata, "file_name"),
         PyOr(Get(metadata, "filename"), Get(metadata, "document_title")))

ResultRecord(node) ==
    [text      |-> node.text,
     file_name |-> FileNameOf(MetadataOf(node)),
     web_url   |-> Get(MetadataOf(node), "web_url")]

\* one iteration of "for node in nodes"
LoopBody(acc, node) ==
    [results       |-> Append(acc.results, ResultRecord(node)),
     combined_text |-> acc.combined_text \o node.text \o <<"\n">>]

LoopStart == [results |-> <<>>, combined_text |-> <<>>]

RECURSIVE Loop(_, _)
Loop(acc, ns) == IF ns = <<>> THEN acc ELSE Loop(LoopBody(acc, Head(ns)), Tail(ns))

SuccessPayload(q, acc) ==
    [query |-> q, text |-> Strip(acc.combined_text), results |-> acc.results]

\* variant: an empty result reported as a failure
EmptyResultAsError(q) ==
    [error |-> <<"No relevant documents found.">>]

\* variant: the empty-result payload without the query
EmptyResultNoQuery(q) ==
    [results |-> <<>>, message |-> "No relevant documents found."]

EmptyResult(q) ==
    [query |-> q, results |-> <<>>, message |-> "No relevant documents found."]

\* lines 51-78: the response for the nodes a retrieval returned
Respond(q, ns) == IF ns = <<>> THEN EmptyResult(q)
                  ELSE SuccessPayload(q, Loop(LoopStart, ns))


\* ------------------------------------------------------- error payloads ----
MissingQueryError == [error |-> <<"Missing 'query' in request body">>]

\* beastgpt.py line 27
BeastMissingCredential == [error |-> <<"Missing LLAMA_API_KEY environment variable">>]

\* llamaquery_api.py line 50
RouterMissingCredential ==
    [error |-> <<"Missing LLAMA_API_KEY or OPENAI_API_KEY in environment">>]

\* f"Llama Cloud connection failed: {str(e)}"
ConnectionFailed(e) == [error |-> <<"Llama Cloud connection failed: ", e.msg>>]

\* f"Router query failed: {str(e)}"
RouterFailed(e) == [error |-> <<"Router query failed: ", e.msg>>]

\* ----------------------------------------------------------- exceptions ----
Transient == {[type |-> "RemoteProtocolError", msg |-> "Server disconnected"],
              [type |-> "ReadTimeout", msg |-> "The read operation timed out"]}
Other == {[type |-> "ValueError", msg |-> "bad request"]}
Exceptions == Transient \cup Other
AttributeError == [type |-> "AttributeError",
                   msg |-> "'NoneType' object has no attribute 'get'"]

\* except (httpx.RemoteProtocolError, httpx.ReadTimeout) as e
IsTransient(e) == e.type \in {"RemoteProtocolError", "ReadTimeout"}

\* variant: the except clause lets network errors through
RouterCatchesOnlyOther(e) == ~IsTransient(e)

\* except Exception as e
RouterCatches(e) == TRUE

\* ------------------------------------------------- retry loop constants ----
\* for attempt in range(3)
MaxAttempts == 3
\* if attempt < 2
LastRetry == 2
\* await asyncio.sleep(2)
BackoffSeconds == 2

\* variant: the retry guard off by one (attempt < 3)
ShouldRetryAlways(attempt) == attempt < LastRetry + 1

ShouldRetry(attempt) == attempt < LastRetry

\* variant: a backoff that grows with the attempt
BackoffGrowing(attempt) == BackoffSeconds * (attempt + 1)

Backoff(attempt) == BackoffSeconds

\* ------------------------------------------------------ request validation ----
\* variant: "query is None" in place of "not query"
MissingQueryOnlyNone(q) == q = Null

\* if not query
MissingQuery(q) == ~Truthy(q)

\* beastgpt.py: if not llama_api_key
BeastCredentialMissing(e) == ~Truthy(e.LLAMA_API_KEY)

\* variant: the router checks the index key alone
RouterCredentialMissingLlamaOnly(e) == ~Truthy(e.LLAMA_API_KEY)

\* llamaquery_api.py: if not llama_api_key or not openai_api_key
RouterCredentialMissing(e) == ~Truthy(e.LLAMA_API_KEY) \/ ~Truthy(e.OPENAI_API_KEY)

\* --------------------------------------------- llamaquery_api.py: result ----
\* response.metadata.get("selectorResult", {}).get("selected_tool", "Unknown")
SelectedTool(metadata) ==
    LET sel == IF "selectorResult" \in DOMAIN metadata THEN metadata["selectorResult"]
               ELSE EmptyMap
    IN  IF "selected_tool" \in DOMAIN sel THEN sel["selected_tool"] ELSE "Unknown"

RouterSuccess(q, ro) ==
    [query          |-> q,
     selected_index |-> SelectedTool(TheVal(ro.metadata)),
     response       |-> Strip(ro.response),
     metadata       |-> TheVal(ro.metadata)]

\* lines 112-124: the response for the object router_engine.query returned
RouterRespond(q, ro) ==
    IF ro.metadata = Null THEN RouterFailed(AttributeError) ELSE RouterSuccess(q, ro)

\* ------------------------------------------------------------- inputs ----
Queries == {Null, Some(""), Some("deals?")}

EnvChoices == [LLAMA_API_KEY  : {Null, Some(""), Some("llx-key")},
               OPENAI_API_KEY : {Null, Some("sk-key")}]

NodeA == [text |-> <<"A">>,
          metadata |-> Some([filename |-> Some("a.pdf"), document_title |-> Some("T")])]
NodeB == [text |-> <<"B">>, metadata |-> Some([web_url |-> Some("http://sp/b")])]
NodeEmpty == [text |-> <<>>, metadata |-> Null]

\* what retriever.retrieve may return to a handler
HandlerNodeSeqs == {<<>>, <<NodeA>>, <<NodeB, NodeEmpty, NodeA>>}

\* what router_engine.query may return
RouterResponses ==
    {[response |-> <<" ", "A", "\n">>, metadata |-> Null],
     [response |-> <<"A">>, metadata |-> Some(EmptyMap)],
     [response |-> <<"B", "\n">>,
      metadata |-> Some([selectorResult |-> [selected_tool |-> "deal_engine"]])]}

\* LlamaCloudIndex(...) either returns or raises; the router builds two
CtorOutcomes == {<<>>} \cup {<<k, e>> : k \in {1, 2}, e \in Exceptions}

\* -------------------------------------------------------------- state ----
VARIABLES
    env,           \* os.environ, read with os.getenv
    Settings_llm,  \* llama_index.core.Settings.llm, process-wide
    app,           \* the handler a request was sent to
    pc,            \* idle, awaiting (to_thread), sleeping, done, raised
    query,         \* data.get("query")
    attempt,       \* the loop variable of the retry loop
    errs,          \* the exceptions the request's worker calls raised, in order
    exc,           \* the exception last caught, as e
    nodes,         \* the local nodes, unbound (Null) until a retrieval returns
    resp,          \* the payload returned, Null until the handler returns
    built,         \* LlamaCloudIndex constructions started
    retrieves,     \* retrieve / query calls handed to a worker thread
    waits,         \* the asyncio.sleep delays, in order
    engineLlm,     \* the LLM the request's router engine was built with
    nIn, nIdx, nAcc, nOut   \* the normalizer loop run on its own

hvars == <<env, Settings_llm, app, pc, query, attempt, errs, exc, nodes, resp,
           built, retrieves, waits, engineLlm>>
nvars == <<nIn, nIdx, nAcc, nOut>>
vars == <<hvars, nvars>>

NoExc == [type |-> "", msg |-> ""]

HandlerInit ==
    /\ Settings_llm = Null
    /\ app = [r \in Req |-> ""]
    /\ pc = [r \in Req |-> "idle"]
    /\ query = [r \in Req |-> Null]
    /\ attempt = [r \in Req |-> 0]
    /\ errs = [r \in Req |-> <<>>]
    /\ exc = [r \in Req |-> NoExc]
    /\ nodes = [r \in Req |-> Null]
    /\ resp = [r \in Req |-> Null]
    /\ built = [r \in Req |-> 0]
    /\ retrieves = [r \in Req |-> 0]
    /\ waits = [r \in Req |-> <<>>]
    /\ engineLlm = [r \in Req |-> Null]

NormIdle == nIn = <<>> /\ nIdx = 0 /\ nAcc = LoopStart /\ nOut = Null

Init == env \in EnvChoices /\ HandlerInit /\ NormIdle

\* the handler returns a payload
Return(r, payload) ==
    /\ resp' = [resp EXCEPT ![r] = Some(payload)]
    /\ pc' = [pc EXCEPT ![r] = "done"]

\* an exception leaves the handler
Raise(r) ==
    /\ pc' = [pc EXCEPT ![r] = "raised"]
    /\ UNCHANGED resp

\* asyncio.to_thread(f, query): the call runs on a worker, the handler awaits
Offload(r) ==
    /\ retrieves' = [retrieves EXCEPT ![r] = @ + 1]
    /\ pc' = [pc EXCEPT ![r] = "awaiting"]
    /\ UNCHANGED resp

\* beastgpt.py lines 20-42, up to the first await of the worker
StartBeast(r) ==
    /\ pc[r] = "idle"
    /\ \E q \in Queries, c \in CtorOutcomes :
        /\ app' = [app EXCEPT ![r] = "beastgpt"]
        /\ query' = [query EXCEPT ![r] = q]
        /\ IF MissingQuery(q)
           THEN Return(r, MissingQueryError) /\ UNCHANGED <<built, retrieves>>
           ELSE IF BeastCredentialMissing(env)
           THEN Return(r, BeastMissingCredential)
                /\ UNCHANGED <<built, retrieves>>
           ELSE /\ built' = [built EXCEPT ![r] = 1]
                /\ IF c # <<>> /\ c[1] = 1
                   THEN Raise(r) /\ UNCHANGED retrieves
                   ELSE Offload(r)
    /\ UNCHANGED <<env, Settings_llm, attempt, errs, exc, nodes, waits, engineLlm, nvars>>

\* lines 42-43, 51-78: the worker returns nodes
RetrieveReturn(r) ==
    /\ pc[r] = "awaiting" /\ app[r] = "beastgpt"
    /\ \E ns \in HandlerNodeSeqs :
        /\ nodes' = [nodes EXCEPT ![r] = Some(ns)]
        /\ Return(r, Respond(TheVal(query[r]), ns))
    /\ UNCHANGED <<env, Settings_llm, app, query, attempt, errs, exc, built,
                   retrieves, waits, engineLlm, nvars>>

\* lines 44-49: the worker raises
RetrieveRaises(r) ==
    /\ pc[r] = "awaiting" /\ app[r] = "beastgpt"
    /\ \E e \in Exceptions :
        /\ errs' = [errs EXCEPT ![r] = Append(@, e)]
        /\ IF IsTransient(e)
           THEN /\ exc' = [exc EXCEPT ![r] = e]
                /\ IF ShouldRetry(attempt[r])
                   THEN /\ waits' = [waits EXCEPT ![r] = Append(@, Backoff(attempt[r]))]
                        /\ pc' = [pc EXCEPT ![r] = "sleeping"]
                        /\ UNCHANGED resp
                   ELSE Return(r, ConnectionFailed(e)) /\ UNCHANGED waits
           ELSE Raise(r) /\ UNCHANGED <<exc, waits>>
    /\ UNCHANGED <<env, Settings_llm, app, query, attempt, nodes, built, retrieves,
                   engineLlm, nvars>>

\* line 47 returns; line 39 takes the next attempt, or the loop ends with
\* nodes unbound and line 51 raises
Wake(r) ==
    /\ pc[r] = "sleeping"
    /\ attempt' = [attempt EXCEPT ![r] = @ + 1]
    /\ IF attempt[r] + 1 < MaxAttempts
       THEN Offload(r)
       ELSE Raise(r) /\ UNCHANGED retrieves
    /\ UNCHANGED <<env, Settings_llm, app, query, errs, exc, nodes, built, waits,
                   engineLlm, nvars>>

\* llamaquery_api.py lines 40-111, up to the await of the worker
StartRouter(r) ==
    /\ pc[r] = "idle"
    /\ \E q \in Queries, c \in CtorOutcomes :
        /\ app' = [app EXCEPT ![r] = "router"]
        /\ query' = [query EXCEPT ![r] = q]
        /\ IF MissingQuery(q)
           THEN Return(r, MissingQueryError)
                /\ UNCHANGED <<built, retrieves, Settings_llm, engineLlm, exc>>
           ELSE IF RouterCredentialMissing(env)
           THEN Return(r, RouterMissingCredential)
                /\ UNCHANGED <<built, retrieves, Settings_llm, engineLlm, exc>>
           ELSE IF c # <<>>
           THEN /\ built' = [built EXCEPT ![r] = c[1]]
                /\ exc' = [exc EXCEPT ![r] = c[2]]
                /\ IF RouterCatches(c[2]) THEN Return(r, RouterFailed(c[2])) ELSE Raise(r)
                /\ UNCHANGED <<retrieves, Settings_llm, engineLlm>>
           ELSE \* each OpenAI(...) is a new object: "by" is its identity
                /\ built' = [built EXCEPT ![r] = 2]
                /\ Settings_llm' = Some([model |-> "gpt-4o-mini",
                                         api_key |-> env.OPENAI_API_KEY, by |-> r])
                /\ engineLlm' = [engineLlm EXCEPT ![r] = Settings_llm']
                /\ Offload(r)
                /\ UNCHANGED exc
    /\ UNCHANGED <<env, attempt, errs, nodes, waits, nvars>>

\* lines 111-121: the worker returns a response object
RouterReturn(r) ==
    /\ pc[r] = "awaiting" /\ app[r] = "router"
    /\ \E ro \in RouterResponses :
        /\ exc' = [exc EXCEPT ![r] = IF ro.metadata = Null THEN AttributeError ELSE @]
        /\ Return(r, RouterRespond(TheVal(query[r]), ro))
    /\ UNCHANGED <<env, Settings_llm, app, query, attempt, errs, nodes, built,
                   retrieves, waits, engineLlm, nvars>>

\* lines 123-124: the worker raises
RouterRaises(r) ==
    /\ pc[r] = "awaiting" /\ app[r] = "router"
    /\ \E e \in Exceptions :
        /\ errs' = [errs EXCEPT ![r] = Append(@, e)]
        /\ IF RouterCatches(e)
           THEN exc' = [exc EXCEPT ![r] = e] /\ Return(r, RouterFailed(e))
           ELSE Raise(r) /\ UNCHANGED exc
    /\ UNCHANGED <<env, Settings_llm, app, query, attempt, nodes, built, retrieves,
                   waits, engineLlm, nvars>>

Next ==
    \E r \in Req :
        \/ StartBeast(r)
        \/ RetrieveReturn(r)
        \/ RetrieveRaises(r)
        \/ Wake(r)
        \/ StartRouter(r)
        \/ RouterReturn(r)
        \/ RouterRaises(r)

Spec == Init /\ [][Next]_vars

\* ------------------------------------ the normalizer loop on its own ----
RECURSIVE SeqsUpTo(_, _)
SeqsUpTo(S, n) ==
    IF n = 0 THEN {<<>>}
    ELSE LET shorter == SeqsUpTo(S, n - 1)
         IN  shorter \cup {Append(s, x) : s \in {t \in shorter : Len(t) = n - 1}, x \in S}

Texts == {<<>>, <<"A">>, <<"B">>, <<" ">>, <<"A", "\n">>, <<" ", "B">>}
TextNodes == {[text |-> t, metadata |-> Null] : t \in Texts}

NameVals == {Null, Some(""), Some("a.pdf"), Some("T")}
UrlVals == {Null, Some("http://sp/doc")}
Metas == [file_name : NameVals, filename : NameVals, document_title : NameVals,
          web_url : UrlVals]
MetaNodes == {[text |-> <<"A">>, metadata |-> Some(m)] : m \in Metas}
             \cup {[text |-> <<"A">>, metadata |-> Some(EmptyMap)]}

NormInputs == SeqsUpTo(TextNodes, MaxNodes) \cup SeqsUpTo(MetaNodes, MaxMetaNodes)

NormQuery == "deals?"

HandlerIdle == env = [LLAMA_API_KEY |-> Some("llx-key"), OPENAI_API_KEY |-> Null]
               /\ HandlerInit

NormInit ==
    /\ HandlerIdle
    /\ nIn \in NormInputs
    /\ nIdx = 0
    /\ nAcc = LoopStart
    /\ nOut = Null

\* lines 57-72: one pass of the loop body
NormStep ==
    /\ nOut = Null
    /\ nIdx < Len(nIn)
    /\ nAcc' = LoopBody(nAcc, nIn[nIdx + 1])
    /\ nIdx' = nIdx + 1
    /\ UNCHANGED <<nIn, nOut, hvars>>

\* lines 51-52 and 74-78: the return
NormReturn ==
    /\ nOut = Null
    /\ nIdx = Len(nIn)
    /\ nOut' = Some(IF nIn = <<>> THEN EmptyResult(NormQuery)
                    ELSE SuccessPayload(NormQuery, nAcc))
    /\ UNCHANGED <<nIn, nIdx, nAcc, hvars>>

NormNext == NormStep \/ NormReturn

SpecNorm == NormInit /\ [][NormNext]_vars

\* ================================================================ claims ====
Arrived(r) == app[r] # ""
IsBeast(r) == app[r] = "beastgpt"
IsRouter(r) == app[r] = "router"
AllTransient(es) == \A i \in 1..Len(es) : IsTransient(es[i])

\* C1: in the single-index handler, three transient failures in a row end the
\* request with exactly {"error": "Llama Cloud connection failed: <message of
\* the 3rd failure>"}, and no request ever makes more than 3 retrieval calls.
C1_RetryExhaustion ==
    \A r \in Req : IsBeast(r) =>
        /\ retrieves[r] <= 3
        /\ (Len(errs[r]) = 3 /\ AllTransient(errs[r])) =>
              /\ pc[r] = "done"
              /\ resp[r] = Some([error |-> <<"Llama Cloud connection failed: ",
                                             errs[r][3].msg>>])

\* a request that failed three times, the third message differing from the first
C1_Witness ==
    \E r \in Req : /\ IsBeast(r) /\ pc[r] = "done" /\ Len(errs[r]) = 3
                   /\ AllTransient(errs[r]) /\ errs[r][1].msg # errs[r][3].msg
                   /\ retrieves[r] = 3

\* C2: a single-index request whose retrieval fails transiently on attempts 1
\* and 2 and returns N on attempt 3 answers what a request with the same query
\* answers when attempt 1 returns N, and it waited exactly twice, 2 seconds
\* each; the direct request waited not at all.
C2_RetryIdempotence ==
    \A r1, r2 \in Req :
        ( /\ IsBeast(r1) /\ IsBeast(r2)
          /\ nodes[r1] # Null /\ nodes[r2] = nodes[r1]
          /\ query[r1] = query[r2]
          /\ Len(errs[r1]) = 2 /\ errs[r2] = <<>> )
        => /\ resp[r1] # Null /\ resp[r1] = resp[r2]
           /\ waits[r1] = <<2, 2>>
           /\ waits[r2] = <<>>

C2_Witness ==
    \E r1, r2 \in Req :
        /\ IsBeast(r1) /\ IsBeast(r2)
        /\ nodes[r1] = Some(<<NodeB, NodeEmpty, NodeA>>) /\ nodes[r2] = nodes[r1]
        /\ query[r1] = query[r2]
        /\ Len(errs[r1]) = 2 /\ errs[r2] = <<>>
        /\ pc[r1] = "done" /\ pc[r2] = "done"

\* C3: in both handlers a request without a query, or with an empty one, is
\* answered exactly {"error": "Missing 'query' in request body"} and makes no
\* upstream call: no index construction, no LLM configuration, no retrieval or
\* router query.
C3_MissingQuery ==
    \A r \in Req : (Arrived(r) /\ query[r] \in {Null, Some("")}) =>
        /\ pc[r] = "done"
        /\ resp[r] = Some([error |-> <<"Missing 'query' in request body">>])
        /\ built[r] = 0
        /\ retrieves[r] = 0
        /\ engineLlm[r] = Null

C3_Witness ==
    \E r1, r2 \in Req :
        /\ IsBeast(r1) /\ query[r1] = Some("") /\ pc[r1] = "done"
        /\ IsRouter(r2) /\ query[r2] = Null /\ pc[r2] = "done"

RequiredCredentials(a) ==
    IF a = "beastgpt" THEN {"LLAMA_API_KEY"} ELSE {"LLAMA_API_KEY", "OPENAI_API_KEY"}
AbsentCredentials(a) == {n \in RequiredCredentials(a) : env[n] = Null}
MissingNamed(n) ==
    IF n = "LLAMA_API_KEY" THEN [error |-> <<"Missing LLAMA_API_KEY environment variable">>]
    ELSE [error |-> <<"Missing OPENAI_API_KEY environment variable">>]
CredentialCase(r) ==
    Arrived(r) /\ Truthy(query[r]) /\ AbsentCredentials(app[r]) # {}

\* C4 as claimed: with a non-empty query and a required credential absent, either
\* handler answers {"error": "Missing <NAME> environment variable"}, <NAME> the
\* absent credential, and makes no upstream call.
C4_NamedCredential ==
    \A r \in Req : CredentialCase(r) =>
        /\ pc[r] = "done"
        /\ \E n \in AbsentCredentials(app[r]) : resp[r] = Some(MissingNamed(n))
        /\ built[r] = 0 /\ retrieves[r] = 0

\* C4 as amended: with a non-empty query and a required credential absent, the
\* single-index handler answers {"error": "Missing LLAMA_API_KEY environment
\* variable"} and the router handler answers {"error": "Missing LLAMA_API_KEY or
\* OPENAI_API_KEY in environment"} whichever of the two is absent; neither makes
\* an upstream call.
C4_MissingCredential ==
    \A r \in Req : CredentialCase(r) =>
        /\ pc[r] = "done"
        /\ IsBeast(r) =>
              resp[r] = Some([error |-> <<"Missing LLAMA_API_KEY environment variable">>])
        /\ IsRouter(r) =>
              resp[r] = Some([error |->
                                <<"Missing LLAMA_API_KEY or OPENAI_API_KEY in environment">>])
        /\ built[r] = 0 /\ retrieves[r] = 0 /\ engineLlm[r] = Null

\* the router refuses for the LLM key alone while the single-index handler refuses too
C4_Witness ==
    \/ /\ env.LLAMA_API_KEY # Null /\ env.OPENAI_API_KEY = Null
       /\ \E r \in Req : IsRouter(r) /\ CredentialCase(r) /\ pc[r] = "done"
    \/ /\ env.LLAMA_API_KEY = Null
       /\ \E r1, r2 \in Req : /\ IsRouter(r1) /\ CredentialCase(r1) /\ pc[r1] = "done"
                              /\ IsBeast(r2) /\ CredentialCase(r2) /\ pc[r2] = "done"

\* C5: every payload a handler returns holds exactly one of the keys error and
\* query, and a handler that has returned has a payload.
C5_ErrorXorQuery ==
    \A r \in Req :
        /\ (pc[r] = "done") = (resp[r] # Null)
        /\ resp[r] # Null =>
              ("error" \in DOMAIN TheVal(resp[r])) # ("query" \in DOMAIN TheVal(resp[r]))

\* an empty-result success beside a retry-exhaustion error
C5_Witness ==
    \E r1, r2 \in Req :
        /\ nodes[r1] = Some(<<>>) /\ resp[r1] # Null
        /\ IsBeast(r2) /\ Len(errs[r2]) = 3 /\ resp[r2] # Null

\* C8: when a retrieval of the single-index handler returns zero nodes, on
\* whichever attempt, the request ends with a payload holding query, results = []
\* and message and no error, and with no retrieval call or backoff after that
\* return.
C8_EmptyResultIsSuccess ==
    \A r \in Req : (IsBeast(r) /\ nodes[r] = Some(<<>>)) =>
        /\ pc[r] = "done"
        /\ resp[r] # Null
        /\ LET p == TheVal(resp[r])
           IN  /\ "query" \in DOMAIN p /\ p.query = TheVal(query[r])
               /\ "results" \in DOMAIN p /\ p.results = <<>>
               /\ "message" \in DOMAIN p
               /\ "error" \notin DOMAIN p
        /\ retrieves[r] = Len(errs[r]) + 1
        /\ Len(waits[r]) = Len(errs[r])

\* zero nodes on the second attempt
C8_Witness ==
    \E r \in Req : IsBeast(r) /\ nodes[r] = Some(<<>>) /\ Len(errs[r]) = 1

C10_NoSharedWrite ==
    [][\A r \in Req :
          (Settings_llm' # Settings_llm /\ engineLlm'[r] # engineLlm[r]) =>
              \A r2 \in Req \ {r} : ~(IsRouter(r2) /\ pc[r2] = "awaiting")]_vars

\* two router requests in flight: the second configured the LLM over the first
C10_Overlap ==
    \E r1, r2 \in Req :
        /\ r1 # r2
        /\ IsRouter(r1) /\ pc[r1] = "awaiting"
        /\ IsRouter(r2) /\ pc[r2] = "awaiting"
        /\ Settings_llm = engineLlm[r2] /\ Settings_llm # engineLlm[r1]

\* ---------------------------------------------- claims on the normalizer ----
RECURSIVE JoinWith(_, _)
JoinWith(ts, sep) ==
    IF ts = <<>> THEN <<>>
    ELSE IF Len(ts) = 1 THEN ts[1]
    ELSE ts[1] \o sep \o JoinWith(Tail(ts), sep)

NonEmpty(t) == t # <<>>
TextsOf(ns) == [i \in 1..Len(ns) |-> ns[i].text]
Returned == nOut # Null /\ nIn # <<>>

\* C6: the text of a success payload is the non-empty node texts, in retrieval
\* order, joined by single newlines and stripped; an empty text adds nothing.
C6_TextJoinsNonEmpty ==
    Returned => TheVal(nOut).text = Strip(JoinWith(SelectSeq(TextsOf(nIn), NonEmpty), <<"\n">>))

NameKeys == <<"file_name", "filename", "document_title">>
\* the least index in a set of key indices, 0 when there is none
Least(hits) == IF hits = {} THEN 0 ELSE CHOOSE i \in hits : \A j \in hits : i <= j
FirstNonNullKey(md) == Least({i \in 1..3 : Get(md, NameKeys[i]) # Null})
FirstNonEmptyKey(md) ==
    Least({i \in 1..3 : Get(md, NameKeys[i]) \notin {Null, Some("")}})

\* C7 as claimed: each record's file_name is the first non-null value among the
\* metadata keys file_name, filename, document_title, an empty string counting as
\* non-null, and null when there is none; web_url is the metadata's web_url.
C7_FirstNonNull ==
    Returned =>
        \A i \in 1..Len(nIn) :
            LET md == MetadataOf(nIn[i])
                k == FirstNonNullKey(md)
                rec == TheVal(nOut).results[i]
            IN  /\ rec.file_name = IF k = 0 THEN Null ELSE Get(md, NameKeys[k])
                /\ rec.web_url = Get(md, "web_url")

\* C7 as amended: each record's file_name is the first value that is neither null
\* nor the empty string among the metadata keys file_name, filename,
\* document_title, in that order; when there is none it is the document_title
\* value as it stands (null, or the empty string); web_url is the metadata's
\* web_url.
C7_FirstNonEmpty ==
    Returned =>
        /\ Len(TheVal(nOut).results) = Len(nIn)
        /\ \A i \in 1..Len(nIn) :
            LET md == MetadataOf(nIn[i])
                k == FirstNonEmptyKey(md)
                rec == TheVal(nOut).results[i]
            IN  /\ rec.file_name = IF k = 0 THEN Get(md, "document_title")
                                   ELSE Get(md, NameKeys[k])
                /\ rec.web_url = Get(md, "web_url")
                /\ rec.text = nIn[i].text

\* an empty file_name gives way to filename
C7_Witness ==
    /\ Returned
    /\ \E i \in 1..Len(nIn) :
          /\ Get(MetadataOf(nIn[i]), "file_name") = Some("")
          /\ Get(MetadataOf(nIn[i]), "filename") = Some("a.pdf")
          /\ Get(MetadataOf(nIn[i]), "document_title") = Some("T")
          /\ TheVal(nOut).results[i].file_name = Some("a.pdf")

=============================================================================
